---- MODULE Spec2Model ----
(***************************************************************************)
(* Model of OLD_proof_of_concept/proof_of_concept_example.ipynb: the DEM   *)
(* differencing notebook, run top to bottom for the two sites CUH and RW.  *)
(*                                                                         *)
(* Numbers.  Elevations are integers (metres).  Cell sizes are integers in *)
(* an arbitrary length unit.  The density 1.52 g/cm^3 is the fraction      *)
(* DensityNum/DensityDen, so masses are counted in 1/DensityDen gram.      *)
(* A statistic of a masked array (mean, std, a threshold) is the exact     *)
(* real (a + k*sqrt(d))/n, kept as the record [a, k, d, n]; comparisons    *)
(* are decided exactly, floating-point rounding is not modelled.  The      *)
(* numpy.ma constant `masked` is the statistic Masked (n = 0).             *)
(*                                                                         *)
(* Inputs.  The rasters gdalwarp writes are the environment: every raster  *)
(* of a small shape over the elevations 0..MaxElev and the no-data         *)
(* sentinel, one-row rasters of SpikeCols cells that are constant but for  *)
(* their last cell, and the 2x2 reference raster; each with a cell size    *)
(* from ResSet.  The plotting cells change no state and are left out.      *)
(***************************************************************************)
EXTENDS Integers, Sequences, FiniteSets, TLC

(* ---------------------------------------------------------------------- *)
(* Bounds of the model and program constants                               *)
(* ---------------------------------------------------------------------- *)
MaxElev == 2
SpikeCols == 52

NoData == -10000
Scale == 100
CubicCm == 10000
DensityNum == 38
DensityDen == 25
KNoise == 1
KOutlierCUH == 6
KOutlierRW == 7

Sites == {"CUH", "RW"}
\* the numpy.ma constant `masked`, as a statistic and as a sum
Masked == [a |-> 0, k |-> 0, d |-> 0, n |-> 0]
IsMasked(x) == x.n = 0
MaskedSum == [masked |-> TRUE, value |-> 0]
Number(v) == [masked |-> FALSE, value |-> v]
\* the placeholder of a name not yet assigned (the properties read a name only
\* after the step that assigns it)
NoArray == [shape |-> <<0, 0>>, data |-> <<>>, mask |-> <<>>, fill |-> 0]
NoRaster == [shape |-> <<0, 0>>, res |-> <<0, 0>>, data |-> <<>>]
NoSize == <<0, 0>>

Elev == 0..MaxElev
CellVals == Elev \cup {NoData}
SmallShapes == {<<1, 1>>, <<1, 2>>}
ResSet == {<<1, 1>>, <<1, 2>>}

Max(a, b) == IF a >= b THEN a ELSE b
Size(shape) == shape[1] * shape[2]

(* ---------------------------------------------------------------------- *)
(* Exact reals (a + k*sqrt(d))/n with n > 0, d >= 0                        *)
(* ---------------------------------------------------------------------- *)
SgnInt(i) == IF i > 0 THEN 1 ELSE IF i < 0 THEN -1 ELSE 0

\* sign of m*m - sq for m > 0, sq >= 0, without forming m*m
SquareSign(m, sq) ==
  IF m > sq \div m THEN 1
  ELSE IF m = sq \div m /\ sq % m = 0 THEN 0
  ELSE -1

\* sign of a + k*sqrt(d)
SurdSign(x) ==
  IF x.k = 0 \/ x.d = 0 THEN SgnInt(x.a)
  ELSE IF x.a = 0 THEN SgnInt(x.k)
  ELSE IF SgnInt(x.a) = SgnInt(x.k) THEN SgnInt(x.a)
  ELSE IF x.a > 0 THEN SquareSign(x.a, x.k * x.k * x.d)
  ELSE -SquareSign(-x.a, x.k * x.k * x.d)

\* c * x for an integer c (numpy: scalar * masked -> masked)
Times(c, x) == IF IsMasked(x) THEN Masked ELSE [x EXCEPT !.a = c * x.a, !.k = c * x.k]

\* x + y for two statistics of the same array
Plus(x, y) ==
  IF IsMasked(x) \/ IsMasked(y) THEN Masked
  ELSE [a |-> x.a + y.a, k |-> x.k + y.k, d |-> Max(x.d, y.d), n |-> x.n]

\* np.abs
Abs(x) ==
  IF IsMasked(x) THEN Masked
  ELSE IF SurdSign(x) < 0 THEN [x EXCEPT !.a = -x.a, !.k = -x.k] ELSE x

\* x < y for two statistics of the same array; a comparison with `masked`
\* yields `masked`, whose truth value is False
Less(x, y) ==
  IF IsMasked(x) \/ IsMasked(y) THEN FALSE
  ELSE SurdSign([a |-> y.a - x.a, k |-> y.k - x.k, d |-> Max(x.d, y.d), n |-> x.n]) > 0

\* v < x and v > x for an integer cell value v
IntLess(v, x) == SurdSign([x EXCEPT !.a = x.a - v * x.n]) > 0
IntGreater(v, x) == SurdSign([x EXCEPT !.a = x.a - v * x.n]) < 0

(* ---------------------------------------------------------------------- *)
(* numpy arrays and numpy.ma masked arrays                                 *)
(* ---------------------------------------------------------------------- *)
Cells(shape) == 1..Size(shape)

\* np.ma.masked_values(x, value): cells equal to the sentinel are masked,
\* the data is kept, the sentinel becomes the fill value
MaskedValues(arr, value) ==
  [shape |-> arr.shape, data |-> arr.data,
   mask |-> [p \in Cells(arr.shape) |-> arr.data[p] = value], fill |-> value]

\* numpy broadcasting of two 2-D shapes
Broadcastable(s1, s2) == \A dim \in 1..2 : s1[dim] = s2[dim] \/ s1[dim] = 1 \/ s2[dim] = 1
BroadcastShape(s1, s2) == <<Max(s1[1], s2[1]), Max(s1[2], s2[2])>>

\* the cell of an operand of shape s that lands on cell p of the result
BroadcastIndex(s, out, p) ==
  LET i == ((p - 1) \div out[2]) + 1
      j == ((p - 1) % out[2]) + 1
      si == IF s[1] = 1 THEN 1 ELSE i
      sj == IF s[2] = 1 THEN 1 ELSE j
  IN (si - 1) * s[2] + sj

\* a subtraction that takes the left operand's mask only
MaSubtractLeftMask(x, y) ==
  LET out == BroadcastShape(x.shape, y.shape)
      ix(p) == BroadcastIndex(x.shape, out, p)
      iy(p) == BroadcastIndex(y.shape, out, p)
  IN [shape |-> out,
      data |-> [p \in Cells(out) |->
                  IF x.mask[ix(p)] THEN x.data[ix(p)] ELSE x.data[ix(p)] - y.data[iy(p)]],
      mask |-> [p \in Cells(out) |-> x.mask[ix(p)]], fill |-> x.fill]

\* MaskedArray.__sub__: mask is the OR of the masks, masked cells keep the
\* left operand's data
MaSubtract(x, y) ==
  LET out == BroadcastShape(x.shape, y.shape)
      ix(p) == BroadcastIndex(x.shape, out, p)
      iy(p) == BroadcastIndex(y.shape, out, p)
      m == [p \in Cells(out) |-> x.mask[ix(p)] \/ y.mask[iy(p)]]
  IN [shape |-> out,
      data |-> [p \in Cells(out) |->
                  IF m[p] THEN x.data[ix(p)] ELSE x.data[ix(p)] - y.data[iy(p)]],
      mask |-> m, fill |-> x.fill]

\* MaskedArray.__mul__ with a scalar: mask kept, masked cells keep their data
MaScale(x, c) ==
  [x EXCEPT !.data = [p \in Cells(x.shape) |->
                        IF x.mask[p] THEN x.data[p] ELSE x.data[p] * c]]

RECURSIVE SumOver(_, _, _)
\* sum of f[p] over the unmasked cells p <= upto
SumOver(f, mask, upto) ==
  IF upto = 0 THEN 0
  ELSE SumOver(f, mask, upto - 1) + (IF mask[upto] THEN 0 ELSE f[upto])

MaCount(x) == SumOver([p \in Cells(x.shape) |-> 1], x.mask, Size(x.shape))
MaTotal(x) == SumOver(x.data, x.mask, Size(x.shape))
MaTotalSq(x) == SumOver([p \in Cells(x.shape) |-> x.data[p] * x.data[p]], x.mask, Size(x.shape))

\* MaskedArray.mean(): over the unmasked cells; `masked` when there are none
MaMean(x) ==
  IF MaCount(x) = 0 THEN Masked
  ELSE [a |-> MaTotal(x), k |-> 0, d |-> 0, n |-> MaCount(x)]

\* MaskedArray.std(): population standard deviation over the unmasked cells,
\* sqrt(n*sum(v^2) - sum(v)^2)/n
MaStd(x) ==
  IF MaCount(x) = 0 THEN Masked
  ELSE [a |-> 0, k |-> 1,
        d |-> MaCount(x) * MaTotalSq(x) - MaTotal(x) * MaTotal(x), n |-> MaCount(x)]

\* np.sum / MaskedArray.sum(): `masked` when every cell is masked
MaSum(x) == IF MaCount(x) = 0 THEN MaskedSum ELSE Number(MaTotal(x))

\* np.ma.filled
Filled(x) == [p \in Cells(x.shape) |-> IF x.mask[p] THEN x.fill ELSE x.data[p]]

\* a masking that fills the masked cells with 0 and replaces the mask by the
\* condition instead of merging it
MaskedOutsideRefill(x, v1, v2) ==
  LET lo == IF Less(v2, v1) THEN v2 ELSE v1
      hi == IF Less(v2, v1) THEN v1 ELSE v2
      xf == [p \in Cells(x.shape) |-> IF x.mask[p] THEN 0 ELSE x.data[p]]
  IN [x EXCEPT !.mask = [p \in Cells(x.shape) |->
                           IF IsMasked(lo) \/ IsMasked(hi) THEN TRUE
                           ELSE IntLess(xf[p], lo) \/ IntGreater(xf[p], hi)]]

\* a masking whose band excludes its two bounds
MaskedOutsideExclusive(x, v1, v2) ==
  LET lo == IF Less(v2, v1) THEN v2 ELSE v1
      hi == IF Less(v2, v1) THEN v1 ELSE v2
      xf == Filled(x)
  IN [x EXCEPT !.mask = [p \in Cells(x.shape) |->
                           \/ x.mask[p]
                           \/ IsMasked(lo) \/ IsMasked(hi)
                           \/ ~IntGreater(xf[p], lo) \/ ~IntLess(xf[p], hi)]]

\* np.ma.masked_outside(x, v1, v2): the bounds are put in order first, then
\* masked_where((xf < v1) | (xf > v2), x) merges the condition into the mask
MaskedOutside(x, v1, v2) ==
  LET lo == IF Less(v2, v1) THEN v2 ELSE v1
      hi == IF Less(v2, v1) THEN v1 ELSE v2
      xf == Filled(x)
      cond == [p \in Cells(x.shape) |->
                 IF IsMasked(lo) \/ IsMasked(hi) THEN TRUE
                 ELSE IntLess(xf[p], lo) \/ IntGreater(xf[p], hi)]
  IN [x EXCEPT !.mask = [p \in Cells(x.shape) |-> cond[p] \/ x.mask[p]]]

(* ---------------------------------------------------------------------- *)
(* The rasters on disk                                                     *)
(* ---------------------------------------------------------------------- *)
\* all rasters of one shape with cells drawn from vals
GridsOf(shape, vals) ==
  {[shape |-> shape, data |-> d] : d \in [Cells(shape) -> vals]}

SmallGrids == UNION {GridsOf(sh, CellVals) : sh \in SmallShapes}

\* a one-row raster of SpikeCols cells, all `base` except the last
SpikeGrid(base, last) ==
  [shape |-> <<1, SpikeCols>>,
   data |-> [p \in 1..SpikeCols |-> IF p = SpikeCols THEN last ELSE base]]

BeforeGrids == SmallGrids \cup {SpikeGrid(0, v) : v \in Elev}
AfterGrids == SmallGrids \cup {SpikeGrid(MaxElev, v) : v \in Elev}

\* the 2x2 raster of the specification's worked scenario
ReferenceFile == [shape |-> <<2, 2>>, res |-> <<1, 1>>, data |-> <<0, 1, 2, 3>>]

Raster(g, r) == [shape |-> g.shape, res |-> r, data |-> g.data]

Absent == NoRaster

(* ---------------------------------------------------------------------- *)
(* State                                                                   *)
(* ---------------------------------------------------------------------- *)
VARIABLES
  pc,                 \* index of the next notebook step
  status,             \* "running", "done", or the exception that stopped the run
  handles,            \* rasterio dataset objects: state and cached cell size
  accesses,           \* every use of a dataset object: <<handle, operation, state>>
  disk,               \* the reprojected rasters written by gdalwarp
  proj_read,          \* *_proj_read: band 1 as read
  proj_mask,          \* *_proj_mask: band 1 with the no-data cells masked
  difference,         \* difference_CUH, difference_RW
  std_diff, mean_diff,
  noise_threshold, outlier_threshold,
  threshold_mask,
  cell_size,          \* <<cell_width, cell_height>>
  volume, mass, sum_mass,
  report              \* the printed mass: "nan", or hundredths of a kilogram

vars == <<pc, status, handles, accesses, disk, proj_read, proj_mask, difference,
          std_diff, mean_diff, noise_threshold, outlier_threshold, threshold_mask,
          cell_size, volume, mass, sum_mass, report>>

Orig(site, i) == <<site, i, "orig">>
Proj(site, i) == <<site, i, "proj">>
Handles == {Orig(s, i) : s \in Sites, i \in 1..2} \cup {Proj(s, i) : s \in Sites, i \in 1..2}
Files == Sites \X (1..2)

Steps == <<"open_originals", "print_profiles", "read_originals",
           "warp_CUH_1", "warp_CUH_2", "warp_RW_1", "warp_RW_2",
           "load_CUH", "extent_CUH", "load_RW", "extent_RW",
           "difference_CUH", "difference_RW", "threshold_CUH", "threshold_RW",
           "volume_CUH", "volume_RW", "mass_CUH", "mass_RW", "report">>

At(step) == status = "running" /\ pc <= Len(Steps) /\ Steps[pc] = step

\* the step of one site's cell of the notebook
StepFor(kind, site) ==
  CASE kind = "load" -> (IF site = "CUH" THEN "load_CUH" ELSE "load_RW")
    [] kind = "extent" -> (IF site = "CUH" THEN "extent_CUH" ELSE "extent_RW")
    [] kind = "difference" -> (IF site = "CUH" THEN "difference_CUH" ELSE "difference_RW")
    [] kind = "threshold" -> (IF site = "CUH" THEN "threshold_CUH" ELSE "threshold_RW")
    [] kind = "volume" -> (IF site = "CUH" THEN "volume_CUH" ELSE "volume_RW")
    [] kind = "mass" -> (IF site = "CUH" THEN "mass_CUH" ELSE "mass_RW")

StepIndex(step) == CHOOSE i \in 1..Len(Steps) : Steps[i] = step

\* the step has run to its end
Done(kind, site) == pc > StepIndex(StepFor(kind, site))

KOutlier(site) == IF site = "CUH" THEN KOutlierCUH ELSE KOutlierRW

PerSite(v) == [s \in Sites |-> v]
NoReport == [nan |-> FALSE, centikg |-> 0]

Init ==
  /\ pc = 1
  /\ status = "running"
  /\ handles = [h \in Handles |-> [state |-> "unopened", res |-> NoSize]]
  /\ accesses = {}
  /\ disk = [f \in Files |-> Absent]
  /\ proj_read = [f \in Files |-> NoArray]
  /\ proj_mask = [f \in Files |-> NoArray]
  /\ difference = PerSite(NoArray)
  /\ std_diff = PerSite(Masked)
  /\ mean_diff = PerSite(Masked)
  /\ noise_threshold = PerSite(Masked)
  /\ outlier_threshold = PerSite(Masked)
  /\ threshold_mask = PerSite(NoArray)
  /\ cell_size = PerSite(NoSize)
  /\ volume = PerSite(NoArray)
  /\ mass = PerSite(NoArray)
  /\ sum_mass = PerSite(MaskedSum)
  /\ report = PerSite(NoReport)

(* ---------------------------------------------------------------------- *)
(* The pipeline's operations                                               *)
(* ---------------------------------------------------------------------- *)
\* (before - after) * 100
DifferenceOf(before, after) == MaScale(MaSubtract(before, after), Scale)

\* a threshold without the absolute value
ThresholdOfSigned(k, std, mean) == Plus(Times(k, std), mean)

\* np.abs(k * std + mean)
ThresholdOf(k, std, mean) == Abs(Plus(Times(k, std), mean))

\* a volume that uses the cell width twice
VolumeOfSquareWidth(tm, w, h) == MaScale(MaScale(MaScale(tm, w), w), CubicCm)

\* threshold_mask * cell_width * cell_height * 10000
VolumeOf(tm, w, h) == MaScale(MaScale(MaScale(tm, w), h), CubicCm)

\* volume * 1.52, in 1/DensityDen gram
MassOf(vol, density) == MaScale(vol, density)

\* '%0.2f' % (sum_mass / 1000): hundredths of a kilogram, rounded; float(masked)
\* is nan
FormatKg(total) ==
  IF total.masked THEN [nan |-> TRUE, centikg |-> 0]
  ELSE [nan |-> FALSE,
        centikg |-> (2 * total.value + 10 * DensityDen) \div (20 * DensityDen)]

(* ---------------------------------------------------------------------- *)
(* Notebook steps                                                          *)
(* ---------------------------------------------------------------------- *)
OrigOrder == <<Orig("CUH", 1), Orig("CUH", 2), Orig("RW", 1), Orig("RW", 2)>>

Use(hs, op) == accesses \cup {<<h, op, handles[h].state>> : h \in hs}

Halt(exception) == status' = exception /\ UNCHANGED pc
Advance == pc' = pc + 1 /\ UNCHANGED status

\* rio.open of the four original rasters; they are never closed afterwards
OpenOriginals ==
  /\ At("open_originals")
  /\ handles' = [h \in Handles |->
                   IF h[3] = "orig" THEN [state |-> "open", res |-> <<1, 1>>] ELSE handles[h]]
  /\ Advance
  /\ UNCHANGED <<accesses, disk, proj_read, proj_mask, difference, std_diff, mean_diff,
                 noise_threshold, outlier_threshold, threshold_mask, cell_size, volume,
                 mass, sum_mass, report>>

\* the i-th rio.open raises; the handles opened before it stay open
OpenOriginalsFails ==
  /\ At("open_originals")
  /\ \E i \in 1..4 :
       handles' = [h \in Handles |->
                     IF \E j \in 1..(i - 1) : OrigOrder[j] = h
                     THEN [state |-> "open", res |-> <<1, 1>>] ELSE handles[h]]
  /\ Halt("RasterioIOError")
  /\ UNCHANGED <<accesses, disk, proj_read, proj_mask, difference, std_diff, mean_diff,
                 noise_threshold, outlier_threshold, threshold_mask, cell_size, volume,
                 mass, sum_mass, report>>

\* pprint(X.profile) for the four originals
PrintProfiles ==
  /\ At("print_profiles")
  /\ accesses' = Use({h \in Handles : h[3] = "orig"}, "profile")
  /\ Advance
  /\ UNCHANGED <<handles, disk, proj_read, proj_mask, difference, std_diff, mean_diff,
                 noise_threshold, outlier_threshold, threshold_mask, cell_size, volume,
                 mass, sum_mass, report>>

\* X.read(1) and masked_values for the four originals; the arrays are only plotted
ReadOriginals ==
  /\ At("read_originals")
  /\ accesses' = Use({h \in Handles : h[3] = "orig"}, "read")
  /\ Advance
  /\ UNCHANGED <<handles, disk, proj_read, proj_mask, difference, std_diff, mean_diff,
                 noise_threshold, outlier_threshold, threshold_mask, cell_size, volume,
                 mass, sum_mass, report>>

\* bound of the model: at most one site's rasters differ from the reference pair
Varied(site) ==
  site = "CUH" \/ (disk[<<"CUH", 1>>] = ReferenceFile /\ disk[<<"CUH", 2>>] = ReferenceFile)

WarpOutputs(site, i) ==
  IF Varied(site)
  THEN {Raster(g, r) : g \in (IF i = 1 THEN BeforeGrids ELSE AfterGrids), r \in ResSet}
         \cup {ReferenceFile}
  ELSE {ReferenceFile}

WarpStep(site, i) ==
  IF site = "CUH" THEN (IF i = 1 THEN "warp_CUH_1" ELSE "warp_CUH_2")
  ELSE (IF i = 1 THEN "warp_RW_1" ELSE "warp_RW_2")

\* !gdalwarp ... X.tif X_proj.tif: the external aligner writes a raster
Warp(site, i) ==
  /\ At(WarpStep(site, i))
  /\ \E out \in WarpOutputs(site, i) : disk' = [disk EXCEPT ![<<site, i>>] = out]
  /\ Advance
  /\ UNCHANGED <<handles, accesses, proj_read, proj_mask, difference, std_diff, mean_diff,
                 noise_threshold, outlier_threshold, threshold_mask, cell_size, volume,
                 mass, sum_mass, report>>

\* gdalwarp fails: the shell escape raises nothing and no raster is written
WarpFails(site, i) ==
  /\ At(WarpStep(site, i))
  /\ Advance
  /\ UNCHANGED <<handles, accesses, disk, proj_read, proj_mask, difference, std_diff,
                 mean_diff, noise_threshold, outlier_threshold, threshold_mask, cell_size,
                 volume, mass, sum_mass, report>>

ReadBand(raster) == [shape |-> raster.shape, data |-> raster.data]

Closed(raster) == [state |-> "closed", res |-> raster.res]

\* open, profile, read(1), masked_values, close: for the before raster, then the after
LoadProj(site) ==
  /\ At(StepFor("load", site))
  /\ disk[<<site, 1>>] # Absent /\ disk[<<site, 2>>] # Absent
  /\ handles' = [handles EXCEPT ![Proj(site, 1)] = Closed(disk[<<site, 1>>]),
                                ![Proj(site, 2)] = Closed(disk[<<site, 2>>])]
  /\ accesses' = accesses \cup
       {<<Proj(site, i), op, "open">> : i \in 1..2, op \in {"profile", "read"}}
  /\ proj_read' = [f \in Files |-> IF f[1] = site THEN ReadBand(disk[f]) ELSE proj_read[f]]
  /\ proj_mask' = [f \in Files |->
                     IF f[1] = site THEN MaskedValues(ReadBand(disk[f]), NoData)
                     ELSE proj_mask[f]]
  /\ Advance
  /\ UNCHANGED <<disk, difference, std_diff, mean_diff, noise_threshold,
                 outlier_threshold, threshold_mask, cell_size, volume, mass, sum_mass,
                 report>>

\* rio.open raises on a missing raster; a before raster already loaded was closed
LoadProjFails(site) ==
  /\ At(StepFor("load", site))
  /\ disk[<<site, 1>>] = Absent \/ disk[<<site, 2>>] = Absent
  /\ LET first == disk[<<site, 1>>] # Absent
     IN /\ handles' = IF first
                      THEN [handles EXCEPT ![Proj(site, 1)] = Closed(disk[<<site, 1>>])]
                      ELSE handles
        /\ accesses' = IF first
                       THEN accesses \cup
                              {<<Proj(site, 1), op, "open">> : op \in {"profile", "read"}}
                       ELSE accesses
        /\ proj_read' = IF first
                        THEN [proj_read EXCEPT ![<<site, 1>>] = ReadBand(disk[<<site, 1>>])]
                        ELSE proj_read
        /\ proj_mask' = IF first
                        THEN [proj_mask EXCEPT ![<<site, 1>>] =
                                MaskedValues(ReadBand(disk[<<site, 1>>]), NoData)]
                        ELSE proj_mask
  /\ Halt("RasterioIOError")
  /\ UNCHANGED <<disk, difference, std_diff, mean_diff, noise_threshold,
                 outlier_threshold, threshold_mask, cell_size, volume, mass, sum_mass,
                 report>>

\* rio.plot.plotting_extent on the two closed datasets (cached bounds), and the plot
PlottingExtent(site) ==
  /\ At(StepFor("extent", site))
  /\ accesses' = Use({Proj(site, 1), Proj(site, 2)}, "bounds")
  /\ Advance
  /\ UNCHANGED <<handles, disk, proj_read, proj_mask, difference, std_diff, mean_diff,
                 noise_threshold, outlier_threshold, threshold_mask, cell_size, volume,
                 mass, sum_mass, report>>

\* difference_X = (X_1_proj_mask - X_2_proj_mask) * 100; no check of shape or cell size
Difference(site) ==
  /\ At(StepFor("difference", site))
  /\ Broadcastable(proj_mask[<<site, 1>>].shape, proj_mask[<<site, 2>>].shape)
  /\ difference' = [difference EXCEPT
                      ![site] = DifferenceOf(proj_mask[<<site, 1>>], proj_mask[<<site, 2>>])]
  /\ Advance
  /\ UNCHANGED <<handles, accesses, disk, proj_read, proj_mask, std_diff, mean_diff,
                 noise_threshold, outlier_threshold, threshold_mask, cell_size, volume,
                 mass, sum_mass, report>>

\* numpy raises ValueError when the operands cannot be broadcast together
DifferenceFails(site) ==
  /\ At(StepFor("difference", site))
  /\ ~Broadcastable(proj_mask[<<site, 1>>].shape, proj_mask[<<site, 2>>].shape)
  /\ Halt("ValueError")
  /\ UNCHANGED <<handles, accesses, disk, proj_read, proj_mask, difference, std_diff,
                 mean_diff, noise_threshold, outlier_threshold, threshold_mask, cell_size,
                 volume, mass, sum_mass, report>>

\* std, mean, the two thresholds and masked_outside
Threshold(site) ==
  /\ At(StepFor("threshold", site))
  /\ LET std == MaStd(difference[site])
         mean == MaMean(difference[site])
         noise == ThresholdOf(KNoise, std, mean)
         outlier == ThresholdOf(KOutlier(site), std, mean)
     IN /\ std_diff' = [std_diff EXCEPT ![site] = std]
        /\ mean_diff' = [mean_diff EXCEPT ![site] = mean]
        /\ noise_threshold' = [noise_threshold EXCEPT ![site] = noise]
        /\ outlier_threshold' = [outlier_threshold EXCEPT ![site] = outlier]
        /\ threshold_mask' = [threshold_mask EXCEPT
                                ![site] = MaskedOutside(difference[site], noise, outlier)]
  /\ Advance
  /\ UNCHANGED <<handles, accesses, disk, proj_read, proj_mask, difference, cell_size,
                 volume, mass, sum_mass, report>>

\* cell size from the (closed) before dataset only, then the volume per cell
Volume(site) ==
  /\ At(StepFor("volume", site))
  /\ accesses' = Use({Proj(site, 1)}, "res")
  /\ LET res == handles[Proj(site, 1)].res
     IN /\ cell_size' = [cell_size EXCEPT ![site] = res]
        /\ volume' = [volume EXCEPT ![site] = VolumeOf(threshold_mask[site], res[1], res[2])]
  /\ Advance
  /\ UNCHANGED <<handles, disk, proj_read, proj_mask, difference, std_diff, mean_diff,
                 noise_threshold, outlier_threshold, threshold_mask, mass, sum_mass,
                 report>>

\* mass_X = volume_X * 1.52; sum_mass_X = np.sum(mass_X)
Mass(site) ==
  /\ At(StepFor("mass", site))
  /\ mass' = [mass EXCEPT ![site] = MassOf(volume[site], DensityNum)]
  /\ sum_mass' = [sum_mass EXCEPT ![site] = MaSum(MassOf(volume[site], DensityNum))]
  /\ Advance
  /\ UNCHANGED <<handles, accesses, disk, proj_read, proj_mask, difference, std_diff,
                 mean_diff, noise_threshold, outlier_threshold, threshold_mask, cell_size,
                 volume, report>>

\* the two print statements; the run ends
Report ==
  /\ At("report")
  /\ report' = [s \in Sites |-> FormatKg(sum_mass[s])]
  /\ pc' = pc + 1
  /\ status' = "done"
  /\ UNCHANGED <<handles, accesses, disk, proj_read, proj_mask, difference, std_diff,
                 mean_diff, noise_threshold, outlier_threshold, threshold_mask, cell_size,
                 volume, mass, sum_mass>>

WarpCUHBefore == Warp("CUH", 1)
WarpCUHAfter == Warp("CUH", 2)
WarpRWBefore == Warp("RW", 1)
WarpRWAfter == Warp("RW", 2)
WarpFailsAny == \E f \in Files : WarpFails(f[1], f[2])
LoadProjCUH == LoadProj("CUH")
LoadProjRW == LoadProj("RW")
LoadProjFailsAny == \E s \in Sites : LoadProjFails(s)
PlottingExtentCUH == PlottingExtent("CUH")
PlottingExtentRW == PlottingExtent("RW")
DifferenceCUH == Difference("CUH")
DifferenceRW == Difference("RW")
DifferenceFailsAny == \E s \in Sites : DifferenceFails(s)
ThresholdCUH == Threshold("CUH")
ThresholdRW == Threshold("RW")
VolumeCUH == Volume("CUH")
VolumeRW == Volume("RW")
MassCUH == Mass("CUH")
MassRW == Mass("RW")

Next ==
  \/ OpenOriginals
  \/ OpenOriginalsFails
  \/ PrintProfiles
  \/ ReadOriginals
  \/ WarpCUHBefore
  \/ WarpCUHAfter
  \/ WarpRWBefore
  \/ WarpRWAfter
  \/ WarpFailsAny
  \/ LoadProjCUH
  \/ LoadProjRW
  \/ LoadProjFailsAny
  \/ PlottingExtentCUH
  \/ PlottingExtentRW
  \/ DifferenceCUH
  \/ DifferenceRW
  \/ DifferenceFailsAny
  \/ ThresholdCUH
  \/ ThresholdRW
  \/ VolumeCUH
  \/ VolumeRW
  \/ MassCUH
  \/ MassRW
  \/ Report

Spec == Init /\ [][Next]_vars

(* ---------------------------------------------------------------------- *)
(* Properties                                                              *)
(* ---------------------------------------------------------------------- *)
Before(site) == <<site, 1>>
After(site) == <<site, 2>>

SameShape(site) == disk[Before(site)].shape = disk[After(site)].shape
SameCellSize(site) == disk[Before(site)].res = disk[After(site)].res

\* C1: for two rasters of one shape, the difference is invalid at a cell exactly
\* when the before raster or the after raster holds no-data there
C1_NoDataPropagates ==
  \A s \in Sites :
    (Done("difference", s) /\ SameShape(s)) =>
      /\ difference[s].shape = proj_read[Before(s)].shape
      /\ \A p \in Cells(difference[s].shape) :
           difference[s].mask[p] <=>
             (proj_read[Before(s)].data[p] = NoData \/ proj_read[After(s)].data[p] = NoData)

\* a difference of two rasters of one shape with a cell invalid through the after
\* raster alone and a valid cell
C1_Witness ==
  \E s \in Sites :
    /\ Done("difference", s) /\ SameShape(s)
    /\ \E p, q \in Cells(difference[s].shape) :
         /\ proj_read[Before(s)].data[p] # NoData
         /\ proj_read[After(s)].data[p] = NoData
         /\ difference[s].mask[p]
         /\ ~difference[s].mask[q]

\* the cell is valid and its value lies outside the claimed band:
\* value < lower or value > upper
OutsideBand(x, p, lower, upper) ==
  IsMasked(lower) \/ IsMasked(upper) \/ IntLess(x.data[p], lower) \/ IntGreater(x.data[p], upper)

AllMasked(x) == \A p \in Cells(x.shape) : x.mask[p]

\* C2 (as claimed): with lower = |k_noise*s + x| and upper = |k_outlier*s + x| over
\* the valid cells, a valid cell becomes invalid exactly when its value is below
\* lower or above upper, and an invalid cell stays invalid
C2_Claim ==
  \A s \in Sites :
    Done("threshold", s) =>
      /\ noise_threshold[s] = ThresholdOf(KNoise, MaStd(difference[s]), MaMean(difference[s]))
      /\ outlier_threshold[s] =
           ThresholdOf(KOutlier(s), MaStd(difference[s]), MaMean(difference[s]))
      /\ threshold_mask[s].shape = difference[s].shape
      /\ \A p \in Cells(difference[s].shape) :
           threshold_mask[s].mask[p] <=>
             (difference[s].mask[p]
                \/ OutsideBand(difference[s], p, noise_threshold[s], outlier_threshold[s]))

\* C3 (as claimed): when upper < lower the run goes on without an error, every
\* cell of the threshold mask is invalid, and the total mass is 0
C3_Claim ==
  \A s \in Sites :
    (Done("threshold", s) /\ Less(outlier_threshold[s], noise_threshold[s])) =>
      /\ status \in {"running", "done"}
      /\ AllMasked(threshold_mask[s])
      /\ Done("mass", s) => sum_mass[s] = Number(0)

\* C4 (as claimed): rasters that differ in shape or in cell size are never
\* differenced; the run stops with a ConfigurationError at the difference step
C4_Claim ==
  \A s \in Sites :
    (Done("load", s) /\ ~(SameShape(s) /\ SameCellSize(s))) =>
      /\ ~Done("difference", s)
      /\ difference[s] = NoArray
      /\ (pc = StepIndex(StepFor("difference", s)) /\ status # "running")
           => status = "ConfigurationError"

\* multipliers from which the bounds of C5 and C6 are drawn
Multipliers == {0, KNoise, 2, KOutlierCUH, KOutlierRW}

\* the step has just run
JustDone(kind, site) == pc = StepIndex(StepFor(kind, site)) + 1

\* C5: masking the threshold classifier's output again with the same two bounds
\* changes neither the mask nor the values, for the bounds of the notebook and
\* for every pair of bounds |k1*std + mean|, |k2*std + mean| in either order
\* (the pairs are tried in the state that follows the threshold step: the
\* difference and its statistics do not change afterwards)
C5_Idempotent ==
  \A s \in Sites :
    /\ Done("threshold", s) =>
          MaskedOutside(threshold_mask[s], noise_threshold[s], outlier_threshold[s])
            = threshold_mask[s]
    /\ JustDone("threshold", s) =>
          \A k1, k2 \in Multipliers :
            LET v1 == ThresholdOf(k1, std_diff[s], mean_diff[s])
                v2 == ThresholdOf(k2, std_diff[s], mean_diff[s])
                once == MaskedOutside(difference[s], v1, v2)
            IN MaskedOutside(once, v1, v2) = once

\* a threshold mask that turned a valid cell invalid and kept another valid
C5_Witness ==
  \E s \in Sites :
    /\ Done("threshold", s)
    /\ \E p, q \in Cells(difference[s].shape) :
         /\ ~difference[s].mask[p] /\ threshold_mask[s].mask[p]
         /\ ~threshold_mask[s].mask[q]

\* the two rasters of the site are the same fully valid grid
IdenticalValid(s) ==
  /\ SameShape(s)
  /\ disk[Before(s)].data = disk[After(s)].data
  /\ \A p \in Cells(disk[Before(s)].shape) : disk[Before(s)].data[p] # NoData

IsZero(x) == ~IsMasked(x) /\ SurdSign(x) = 0

\* C6: for two identical fully valid rasters the difference is all zeros, mean
\* and std are 0, both bounds are 0 for any multipliers, every cell stays valid,
\* and the total volume and the total mass are 0
C6_IdenticalGrids ==
  \A s \in Sites :
    IdenticalValid(s) =>
      /\ Done("difference", s) =>
           \A p \in Cells(difference[s].shape) :
             difference[s].data[p] = 0 /\ ~difference[s].mask[p]
      /\ Done("threshold", s) =>
           /\ IsZero(mean_diff[s]) /\ IsZero(std_diff[s])
           /\ IsZero(noise_threshold[s]) /\ IsZero(outlier_threshold[s])
           /\ \A k \in Multipliers : IsZero(ThresholdOf(k, std_diff[s], mean_diff[s]))
           /\ \A p \in Cells(threshold_mask[s].shape) :
                threshold_mask[s].data[p] = 0 /\ ~threshold_mask[s].mask[p]
      /\ Done("volume", s) => MaSum(volume[s]) = Number(0)
      /\ Done("mass", s) => sum_mass[s] = Number(0)

\* the whole pipeline has run on two identical fully valid rasters with a
\* non-zero elevation
C6_Witness ==
  \E s \in Sites :
    /\ IdenticalValid(s)
    /\ status = "done"
    /\ \E p \in Cells(disk[Before(s)].shape) : disk[Before(s)].data[p] > 0

\* every valid value doubled, the mask unchanged
Doubled(x) == [x EXCEPT !.data = [p \in Cells(x.shape) |->
                                   IF x.mask[p] THEN x.data[p] ELSE 2 * x.data[p]]]

\* twice a sum; twice `masked` is `masked`
Twice(total) == [total EXCEPT !.value = 2 * total.value]

\* C7: the volume grid has the shape and the mask of the thresholded grid, each
\* valid cell holds difference * cell_width * cell_height * 10000, and doubling
\* the valid differences doubles the total volume
C7_Volume ==
  \A s \in Sites :
    Done("volume", s) =>
      LET w == disk[Before(s)].res[1]
          h == disk[Before(s)].res[2]
      IN /\ volume[s].shape = threshold_mask[s].shape
         /\ volume[s].mask = threshold_mask[s].mask
         /\ \A p \in Cells(volume[s].shape) :
              ~volume[s].mask[p] => volume[s].data[p] = threshold_mask[s].data[p] * w * h * CubicCm
         /\ MaSum(VolumeOf(Doubled(threshold_mask[s]), w, h)) = Twice(MaSum(volume[s]))

\* a volume grid with a valid non-zero cell, a masked cell, and cell width # height
C7_Witness ==
  \E s \in Sites :
    /\ Done("volume", s)
    /\ disk[Before(s)].res[1] # disk[Before(s)].res[2]
    /\ \E p, q \in Cells(volume[s].shape) :
         ~volume[s].mask[p] /\ volume[s].data[p] > 0 /\ volume[s].mask[q]

RECURSIVE ValidSum(_, _, _)
\* sum over the valid cells p <= upto of data[p] * factor
ValidSum(x, factor, upto) ==
  IF upto = 0 THEN 0
  ELSE ValidSum(x, factor, upto - 1) + (IF x.mask[upto] THEN 0 ELSE x.data[upto] * factor)

\* C8 (as claimed): the total mass is the sum over the valid cells of
\* volume * density, an invalid cell counting 0, and doubling the density doubles it
C8_Claim ==
  \A s \in Sites :
    Done("mass", s) =>
      /\ sum_mass[s] = Number(ValidSum(volume[s], DensityNum, Size(volume[s].shape)))
      /\ MaSum(MassOf(volume[s], 2 * DensityNum)) = Twice(sum_mass[s])

\* C9 (as claimed): when no cell is valid after thresholding, the run ends in a
\* DegenerateResultWarning instead of going on to the volume and mass steps
C9_Claim ==
  \A s \in Sites :
    (Done("threshold", s) /\ MaCount(threshold_mask[s]) = 0) =>
      /\ Done("volume", s) => status = "DegenerateResultWarning"
      /\ ~report[s].nan

\* C10 (as claimed): when the run has ended, normally or by an exception, no
\* raster handle is open
C10_Claim ==
  status # "running" => \A h \in Handles : handles[h].state # "open"

\* C11: after thresholding every valid cell holds a value >= 0, a cell whose
\* difference is negative is never valid, every valid volume and mass is >= 0,
\* and the total mass is never negative
C11_NonNegative ==
  \A s \in Sites :
    /\ Done("threshold", s) =>
         \A p \in Cells(threshold_mask[s].shape) :
           ~threshold_mask[s].mask[p] =>
             threshold_mask[s].data[p] >= 0 /\ difference[s].data[p] >= 0
    /\ Done("volume", s) =>
         \A p \in Cells(volume[s].shape) : ~volume[s].mask[p] => volume[s].data[p] >= 0
    /\ Done("mass", s) =>
         /\ \A p \in Cells(mass[s].shape) : ~mass[s].mask[p] => mass[s].data[p] >= 0
         /\ ~sum_mass[s].masked => sum_mass[s].value >= 0

\* a run through the mass step in which a cell where the elevation increased was
\* valid before thresholding and invalid after it, another cell stayed valid,
\* and the total mass is positive
C11_Witness ==
  \E s \in Sites :
    /\ Done("mass", s)
    /\ ~sum_mass[s].masked /\ sum_mass[s].value > 0
    /\ \E p, q \in Cells(difference[s].shape) :
         /\ ~difference[s].mask[p] /\ difference[s].data[p] < 0
         /\ threshold_mask[s].mask[p]
         /\ ~threshold_mask[s].mask[q] /\ threshold_mask[s].data[q] > 0

\* C12 (as claimed): every use of a reprojected raster's dataset object (band
\* read, plotting extent, cell resolution) happens while the dataset is open;
\* none happens after its close()
C12_Claim ==
  \A a \in accesses :
    (\E s \in Sites, i \in 1..2 : a[1] = Proj(s, i)) => a[3] = "open"

====
